---- MODULE Spec2Model ----
(***************************************************************************)
(* LLMD xKS preflight checks (llmd-xks-checks.py).                         *)
(*                                                                         *)
(* One run of the script: LLMDXKSChecks.__init__ connects to the cluster,  *)
(* resolves the cloud provider, registers the two checks, runs them and    *)
(* prints the report; main() then hands the constructor's result to        *)
(* sys.exit.  Every list_node() call is answered afresh by the cluster.    *)
(***************************************************************************)
EXTENDS Integers, Sequences, FiniteSets, TLC

\* ------------------------------------------------------------------ bounds

\* Largest number of nodes a list_node() answer holds.
MaxNodes == 2

\* ------------------------------------------------------ cluster data model

AzureClusterLabel == "kubernetes.azure.com/cluster"
InstanceTypeLabel == "beta.kubernetes.io/instance-type"
GpuPresentLabel == "nvidia.com/gpu.present"
GpuResource == "nvidia.com/gpu"

\* The keys of the instance_types dict, in insertion order.
SupportedInstanceTypes ==
    << "Standard_NC24ads_A100_v4",
       "Standard_ND96asr_v4",
       "Standard_ND96amsr_A100_v4",
       "Standard_ND96isr_H100_v5",
       "Standard_ND96isr_H200_v5" >>

\* The keys of the clouds dict, in insertion order.
CloudBuckets == << "none", "azure", "aws" >>

Range(s) == {s[n] : n \in DOMAIN s}

\* An instance type outside the allow list.
OtherInstanceType == "Standard_D4s_v3"

\* The values a label can carry, per key.
LabelValues(key) ==
    IF key = InstanceTypeLabel
       THEN Range(SupportedInstanceTypes) \cup {OtherInstanceType}
       ELSE IF key = AzureClusterLabel THEN {"MC_rg_aks_eastus"} ELSE {"true"}

\* Quantity strings, as sequences of characters: "0", "10", and "1k", a
\* quantity written with a suffix, which int() does not accept.
Quantities ==
    { <<"0">>, <<"1", "0">>, <<"1", "k">> }

\* All dicts with keys among `keys` and values drawn per key from vals[key].
Dicts(keys, vals) ==
    UNION { { f \in [S -> UNION {vals[k] : k \in S}] : \A k \in S : f[k] \in vals[k] }
            : S \in SUBSET keys }

AllocValues(key) == Quantities

\* Nodes whose labels use the keys `labelKeys` and whose allocatable
\* resources use the keys `resourceKeys`.
Nodes(labelKeys, resourceKeys) ==
    [ labels : Dicts(labelKeys, [k \in labelKeys |-> LabelValues(k)]),
      allocatable : Dicts(resourceKeys, [k \in resourceKeys |-> AllocValues(k)]) ]

SeqsUpTo(S, n) == UNION { [1..m -> S] : m \in 0..n }

\* What a list_node() call can do: raise ApiException, or answer with the
\* items of the cluster at that moment.
ListNode(labelKeys, resourceKeys) ==
    { [exc |-> "ApiException", items |-> << >>] }
    \cup { [exc |-> "", items |-> s] : s \in SeqsUpTo(Nodes(labelKeys, resourceKeys), MaxNodes) }

\* ---------------------------------------------------------- Python helpers

Return(v) == [exc |-> "", value |-> v]
Raise(e) == [exc |-> e, value |-> e]

Digits == << "0", "1", "2", "3", "4", "5", "6", "7", "8", "9" >>

DigitValue(c) == (CHOOSE d \in DOMAIN Digits : Digits[d] = c) - 1

RECURSIVE ParseDigits(_, _, _)
ParseDigits(s, n, acc) ==
    IF n > Len(s) THEN acc
    ELSE ParseDigits(s, n + 1, 10 * acc + DigitValue(s[n]))

\* int(s) for an unsigned string: its decimal value, or ValueError when a
\* character is no digit.
PyInt(s) ==
    IF s # << >> /\ \A n \in DOMAIN s : s[n] \in Range(Digits)
       THEN Return(ParseDigits(s, 1, 0))
       ELSE Raise("ValueError")

\* PyMaxKey with ties won by the last key instead of the first.
RECURSIVE PyMaxKey_LastWins(_, _, _, _)
PyMaxKey_LastWins(keys, d, n, best) ==
    IF n > Len(keys) THEN best
    ELSE PyMaxKey_LastWins(keys, d, n + 1, IF d[keys[n]] >= d[best] THEN keys[n] ELSE best)

\* max(d, key=d.get): the first key, in insertion order, whose count is
\* the largest.
RECURSIVE PyMaxKey(_, _, _, _)
PyMaxKey(keys, d, n, best) ==
    IF n > Len(keys) THEN best
    ELSE PyMaxKey(keys, d, n + 1, IF d[keys[n]] > d[best] THEN keys[n] ELSE best)

\* ------------------------------------------------------------ the checks

\* detect_cloud_provider: the loop over nodes.items.
RECURSIVE CountClouds(_, _, _)
CountClouds(items, n, clouds) ==
    IF n > Len(items) THEN clouds
    ELSE CountClouds(items, n + 1,
            IF AzureClusterLabel \in DOMAIN items[n].labels
               THEN [clouds EXCEPT !["azure"] = @ + 1]
               ELSE clouds)

detect_cloud_provider(listing) ==
    IF listing.exc # "" THEN Raise(listing.exc)
    ELSE LET clouds == CountClouds(listing.items, 1, [c \in Range(CloudBuckets) |-> 0])
         IN  Return(PyMaxKey(CloudBuckets, clouds, 2, CloudBuckets[1]))

\* azure_instance_type: the loop over nodes.items.
RECURSIVE CountInstanceTypes(_, _, _)
CountInstanceTypes(items, n, instance_types) ==
    IF n > Len(items) THEN instance_types
    ELSE LET labels == items[n].labels
         IN  CountInstanceTypes(items, n + 1,
                IF /\ InstanceTypeLabel \in DOMAIN labels
                   /\ labels[InstanceTypeLabel] \in DOMAIN instance_types
                   THEN [instance_types EXCEPT ![labels[InstanceTypeLabel]] = @ + 1]
                   ELSE instance_types)

azure_instance_type(listing) ==
    IF listing.exc # "" THEN Raise(listing.exc)
    ELSE LET instance_types ==
                 CountInstanceTypes(listing.items, 1,
                                    [t \in Range(SupportedInstanceTypes) |-> 0])
             max_instance_type ==
                 PyMaxKey(SupportedInstanceTypes, instance_types, 2, SupportedInstanceTypes[1])
         IN  IF instance_types[max_instance_type] = 0 THEN Return(FALSE) ELSE Return(TRUE)

\* test_instance_type without the test of the provider.
test_instance_type_AnyProvider(cloud_provider_, listing) ==
    azure_instance_type(listing)

test_instance_type(cloud_provider_, listing) ==
    IF cloud_provider_ = "azure" THEN azure_instance_type(listing) ELSE Return(FALSE)

\* nvidia_driver_present with >= 0 for > 0.
nvidia_driver_present_ZeroOk(node) ==
    IF GpuResource \in DOMAIN node.allocatable
       THEN LET q == PyInt(node.allocatable[GpuResource])
            IN  IF q.exc # "" THEN q
                ELSE IF q.value >= 0 THEN Return(TRUE) ELSE Return(FALSE)
       ELSE Return(FALSE)

nvidia_driver_present(node) ==
    IF GpuResource \in DOMAIN node.allocatable
       THEN LET q == PyInt(node.allocatable[GpuResource])
            IN  IF q.exc # "" THEN q
                ELSE IF q.value > 0 THEN Return(TRUE) ELSE Return(FALSE)
       ELSE Return(FALSE)

\* test_gpu_availablity: the loop over nodes.items and the verdict after it.
\* `scanned` counts the nodes the loop has looked at when the call ends.
RECURSIVE ScanAccelerators(_, _, _)
ScanAccelerators(items, n, accelerators) ==
    IF n > Len(items)
       THEN [ exc |-> "",
              value |-> ~(accelerators["other"] = Len(items)),
              scanned |-> n - 1 ]
       ELSE IF GpuPresentLabel \in DOMAIN items[n].labels
               THEN LET counted == [accelerators EXCEPT !["nvidia"] = @ + 1]
                        driver == nvidia_driver_present(items[n])
                    IN  IF driver.exc # ""
                           THEN [exc |-> driver.exc, value |-> driver.exc, scanned |-> n]
                        ELSE IF ~driver.value
                           THEN [exc |-> "", value |-> FALSE, scanned |-> n]
                        ELSE ScanAccelerators(items, n + 1, counted)
               ELSE ScanAccelerators(items, n + 1,
                        [accelerators EXCEPT !["other"] = @ + 1])

test_gpu_availablity(listing) ==
    IF listing.exc # "" THEN [exc |-> listing.exc, value |-> listing.exc, scanned |-> 0]
    ELSE ScanAccelerators(listing.items, 1, [a \in {"nvidia", "other"} |-> 0])

\* ------------------------------------------------------------ the process

VARIABLES
    kube_config,         \* kwargs["kube_config"]: NoPath or the -k path
    arg_cloud_provider,  \* kwargs["cloud_provider"], as the run was started
    cloud_provider,      \* self.cloud_provider
    k8s_api,             \* self.k8s_api: "unset", "None" or "api"
    config_used,         \* the kube-config the connection was opened with
    tests,               \* self.tests
    i,                   \* position of the loop of run / report in tests
    pc,                  \* where __init__ / main stands
    exit_code,           \* the process exit status, once pc = "exited"
    uncaught,            \* the exception that ended the process, or ""
    stdout,              \* the lines printed so far
    executed,            \* the predicates run() has called, with what they returned
    last_call            \* the latest detector / predicate call and its listing

vars == << kube_config, arg_cloud_provider, cloud_provider, k8s_api, config_used,
           tests, i, pc, exit_code, uncaught, stdout, executed, last_call >>

NoPath == "None"
KubeConfigPaths == {"/home/user/other-cluster.yaml"}
AmbientConfig == "ambient"

\* The provider values a run can be started with; the command line admits
\* the first two only.
CliCloudProviders == {"auto", "azure"}
CloudProviders == CliCloudProviders \cup {"aws"}

\* kubernetes.config.load_kube_config(config_file): the file named, or the
\* library's own discovery when none is named.
load_kube_config(config_file) ==
    IF config_file = NoPath THEN AmbientConfig ELSE config_file

NoCall == [fn |-> "", listing |-> [exc |-> "", items |-> << >>], result |-> Return("")]

Init ==
    /\ kube_config \in {NoPath} \cup KubeConfigPaths
    /\ arg_cloud_provider \in CloudProviders
    /\ cloud_provider = arg_cloud_provider
    /\ k8s_api = "unset"
    /\ config_used = ""
    /\ tests = << >>
    /\ i = 0
    /\ pc = "connect"
    /\ exit_code = 0
    /\ uncaught = ""
    /\ stdout = << >>
    /\ executed = << >>
    /\ last_call = NoCall

\* sys.exit(code).
SysExit(code) ==
    /\ pc' = "exited"
    /\ exit_code' = code
    /\ uncaught' = ""

\* An exception nobody catches: the interpreter prints the traceback and
\* the process ends with status 1.
UncaughtExit(exc) ==
    /\ pc' = "exited"
    /\ exit_code' = 1
    /\ uncaught' = exc

\* K8sConnection without the exit when the connection failed.
K8sConnection_NoExit ==
    /\ pc = "connect"
    /\ \E loaded \in BOOLEAN :
          /\ k8s_api' = IF loaded THEN "api" ELSE "None"
          /\ config_used' = IF loaded THEN load_kube_config(NoPath) ELSE config_used
          /\ pc' = "provider"
          /\ UNCHANGED << exit_code, uncaught >>
    /\ UNCHANGED << kube_config, arg_cloud_provider, cloud_provider, tests, i,
                    stdout, executed, last_call >>

\* _k8s_connection, and the test of its result in __init__.
K8sConnection ==
    /\ pc = "connect"
    /\ \E loaded \in BOOLEAN :
          IF loaded
             THEN /\ k8s_api' = "api"
                  /\ config_used' = load_kube_config(NoPath)
                  /\ pc' = "provider"
                  /\ UNCHANGED << exit_code, uncaught >>
             ELSE /\ k8s_api' = "None"
                  /\ UNCHANGED config_used
                  /\ SysExit(1)
    /\ UNCHANGED << kube_config, arg_cloud_provider, cloud_provider, tests, i,
                    stdout, executed, last_call >>

\* DetectProvider without the exit when the detector answered "none".
DetectProvider_NoExit ==
    /\ pc = "provider"
    /\ cloud_provider = "auto"
    /\ \E listing \in ListNode({AzureClusterLabel}, {}) :
          LET r == detect_cloud_provider(listing)
          IN  /\ last_call' = [fn |-> "detect_cloud_provider", listing |-> listing, result |-> r]
              /\ IF r.exc # ""
                    THEN UncaughtExit(r.exc) /\ UNCHANGED cloud_provider
                    ELSE /\ cloud_provider' = r.value
                         /\ pc' = "register"
                         /\ UNCHANGED << exit_code, uncaught >>
    /\ UNCHANGED << kube_config, arg_cloud_provider, k8s_api, config_used, tests, i,
                    stdout, executed >>

\* DetectProvider that leaves self.cloud_provider as it was.
DetectProvider_NotStored ==
    /\ pc = "provider"
    /\ cloud_provider = "auto"
    /\ \E listing \in ListNode({AzureClusterLabel}, {}) :
          LET r == detect_cloud_provider(listing)
          IN  /\ last_call' = [fn |-> "detect_cloud_provider", listing |-> listing, result |-> r]
              /\ UNCHANGED cloud_provider
              /\ IF r.exc # ""
                    THEN UncaughtExit(r.exc)
                    ELSE IF r.value = "none"
                            THEN SysExit(2)
                            ELSE pc' = "register" /\ UNCHANGED << exit_code, uncaught >>
    /\ UNCHANGED << kube_config, arg_cloud_provider, k8s_api, config_used, tests, i,
                    stdout, executed >>

\* __init__, cloud_provider == "auto": detection and the test of its result.
DetectProvider ==
    /\ pc = "provider"
    /\ cloud_provider = "auto"
    /\ \E listing \in ListNode({AzureClusterLabel}, {}) :
          LET r == detect_cloud_provider(listing)
          IN  /\ last_call' = [fn |-> "detect_cloud_provider", listing |-> listing, result |-> r]
              /\ IF r.exc # ""
                    THEN UncaughtExit(r.exc) /\ UNCHANGED cloud_provider
                    ELSE /\ cloud_provider' = r.value
                         /\ IF r.value = "none"
                               THEN SysExit(2)
                               ELSE pc' = "register" /\ UNCHANGED << exit_code, uncaught >>
    /\ UNCHANGED << kube_config, arg_cloud_provider, k8s_api, config_used, tests, i,
                    stdout, executed >>

\* __init__, cloud_provider given.
ProviderSpecified ==
    /\ pc = "provider"
    /\ cloud_provider # "auto"
    /\ pc' = "register"
    /\ UNCHANGED << kube_config, arg_cloud_provider, cloud_provider, k8s_api, config_used,
                    tests, i, exit_code, uncaught, stdout, executed, last_call >>

RegisteredTests ==
    << [ name |-> "instance_type",
         function |-> "test_instance_type",
         suggested_action |-> "Provision a cluster with at least one supported instance type",
         result |-> FALSE ],
       [ name |-> "gpu_availablity",
         function |-> "test_gpu_availablity",
         suggested_action |-> "Provision a cluster with at least one supported GPU driver",
         result |-> FALSE ] >>

\* __init__: self.tests = [...], and the entry into run(self.tests).
RegisterTests ==
    /\ pc = "register"
    /\ tests' = RegisteredTests
    /\ i' = 1
    /\ pc' = "run"
    /\ UNCHANGED << kube_config, arg_cloud_provider, cloud_provider, k8s_api, config_used,
                    exit_code, uncaught, stdout, executed, last_call >>

\* The list_node() answers the predicate `function` can meet.
ListingsOf(function) ==
    IF function = "test_instance_type"
       THEN ListNode({InstanceTypeLabel}, {})
       ELSE ListNode({GpuPresentLabel}, {GpuResource})

\* test["function"]().
CallTest(function, listing) ==
    IF function = "test_instance_type"
       THEN test_instance_type(cloud_provider, listing)
       ELSE test_gpu_availablity(listing)

\* RunTest where a failed test ends the loop.
RunTest_StopOnFail ==
    /\ pc = "run"
    /\ i <= Len(tests)
    /\ \E listing \in ListingsOf(tests[i].function) :
          LET r == CallTest(tests[i].function, listing)
          IN  /\ last_call' = [fn |-> tests[i].function, listing |-> listing, result |-> r]
              /\ executed' = Append(executed, [name |-> tests[i].name, exc |-> r.exc, value |-> r.value])
              /\ IF r.exc # ""
                    THEN UncaughtExit(r.exc) /\ UNCHANGED << tests, i >>
                    ELSE /\ tests' = [tests EXCEPT ![i].result = r.value]
                         /\ IF i = Len(tests) \/ ~r.value
                               THEN pc' = "report" /\ i' = 1
                               ELSE pc' = "run" /\ i' = i + 1
                         /\ UNCHANGED << exit_code, uncaught >>
    /\ UNCHANGED << kube_config, arg_cloud_provider, cloud_provider, k8s_api, config_used,
                    stdout >>

\* run: one turn of the loop; after the last one, run returns and report starts.
RunTest ==
    /\ pc = "run"
    /\ i <= Len(tests)
    /\ \E listing \in ListingsOf(tests[i].function) :
          LET r == CallTest(tests[i].function, listing)
          IN  /\ last_call' = [fn |-> tests[i].function, listing |-> listing, result |-> r]
              /\ executed' = Append(executed, [name |-> tests[i].name, exc |-> r.exc, value |-> r.value])
              /\ IF r.exc # ""
                    THEN UncaughtExit(r.exc) /\ UNCHANGED << tests, i >>
                    ELSE /\ tests' = [tests EXCEPT ![i].result = r.value]
                         /\ IF i = Len(tests)
                               THEN pc' = "report" /\ i' = 1
                               ELSE pc' = "run" /\ i' = i + 1
                         /\ UNCHANGED << exit_code, uncaught >>
    /\ UNCHANGED << kube_config, arg_cloud_provider, cloud_provider, k8s_api, config_used,
                    stdout >>

\* ReportLines with the suggested action printed for every test.
ReportLines_AlwaysAction(test) ==
    << [kind |-> IF test.result THEN "PASSED" ELSE "FAILED", name |-> test.name],
       [kind |-> "Suggested action", name |-> test.name, text |-> test.suggested_action] >>

\* The lines report prints for one test.
ReportLines(test) ==
    IF test.result
       THEN << [kind |-> "PASSED", name |-> test.name] >>
       ELSE << [kind |-> "FAILED", name |-> test.name],
               [kind |-> "Suggested action", name |-> test.name, text |-> test.suggested_action] >>

\* report: one turn of the loop; after the last one, __init__ and main return.
ReportTest ==
    /\ pc = "report"
    /\ i <= Len(tests)
    /\ stdout' = stdout \o ReportLines(tests[i])
    /\ IF i = Len(tests)
          THEN pc' = "returned" /\ UNCHANGED i
          ELSE pc' = "report" /\ i' = i + 1
    /\ UNCHANGED << kube_config, arg_cloud_provider, cloud_provider, k8s_api, config_used,
                    tests, exit_code, uncaught, executed, last_call >>

\* sys.exit(main()): main returns None, which is exit status 0.
MainExit ==
    /\ pc = "returned"
    /\ SysExit(0)
    /\ UNCHANGED << kube_config, arg_cloud_provider, cloud_provider, k8s_api, config_used,
                    tests, i, stdout, executed, last_call >>

Next ==
    \/ K8sConnection
    \/ DetectProvider
    \/ ProviderSpecified
    \/ RegisterTests
    \/ RunTest
    \/ ReportTest
    \/ MainExit

Spec == Init /\ [][Next]_vars

\* ------------------------------------------------------------- properties

Passed(r) == r.exc = "" /\ r.value = TRUE
Failed(r) == r.exc = "" /\ r.value = FALSE
HasLabel(node, key) == key \in DOMAIN node.labels

\* The process ended after report had printed its last line.
ReportFinished == pc = "returned" \/ (pc = "exited" /\ exit_code = 0)

\* C1: when the cluster connection fails, the process exits with code 1
\* and never reaches the report stage: the provider is never resolved, no
\* detector or predicate is called, no test is registered or executed and
\* nothing is printed.
C1_ConnectionFailureIsFatal ==
    k8s_api = "None" =>
        /\ pc = "exited"
        /\ exit_code = 1
        /\ uncaught = ""
        /\ cloud_provider = arg_cloud_provider
        /\ last_call = NoCall
        /\ tests = << >>
        /\ executed = << >>
        /\ stdout = << >>

C1_Witness ==
    k8s_api = "None" /\ pc = "exited" /\ exit_code = 1 /\ arg_cloud_provider = "auto"

\* C2: when the provider asked for is "auto" and detection returns "none",
\* as it does for every listing of zero nodes, the process exits with
\* code 2 before any predicate is executed and before any line is printed.
C2_DetectionNoneIsFatal ==
    /\ ( /\ arg_cloud_provider = "auto"
         /\ last_call.fn = "detect_cloud_provider"
         /\ last_call.listing.exc = ""
         /\ (last_call.listing.items = << >> \/ last_call.result.value = "none") )
       => /\ pc = "exited"
          /\ exit_code = 2
          /\ uncaught = ""
          /\ cloud_provider = "none"
          /\ tests = << >>
          /\ executed = << >>
          /\ stdout = << >>
    /\ (arg_cloud_provider = "auto" /\ (executed # << >> \/ stdout # << >>))
       => cloud_provider # "none"

C2_Witness ==
    /\ arg_cloud_provider = "auto"
    /\ last_call.fn = "detect_cloud_provider"
    /\ last_call.listing.exc = ""
    /\ Len(last_call.listing.items) = MaxNodes
    /\ last_call.result.value = "none"
    /\ pc = "exited"
    /\ exit_code = 2

\* C3: for every node list, detect_cloud_provider returns "azure" if at
\* least one node carries the label key kubernetes.azure.com/cluster and
\* "none" otherwise, the empty list included; never "aws" or "auto".
C3_DetectAzureOrNone ==
    (last_call.fn = "detect_cloud_provider" /\ last_call.listing.exc = "") =>
        LET items == last_call.listing.items
            r == last_call.result
        IN  /\ r.exc = ""
            /\ r.value \notin {"aws", "auto"}
            /\ (\E n \in DOMAIN items : HasLabel(items[n], "kubernetes.azure.com/cluster"))
               => r.value = "azure"
            /\ (\A n \in DOMAIN items : ~HasLabel(items[n], "kubernetes.azure.com/cluster"))
               => r.value = "none"

C3_Witness ==
    /\ last_call.fn = "detect_cloud_provider"
    /\ last_call.listing.exc = ""
    /\ Len(last_call.listing.items) = 2
    /\ ~HasLabel(last_call.listing.items[1], "kubernetes.azure.com/cluster")
    /\ HasLabel(last_call.listing.items[2], "kubernetes.azure.com/cluster")
    /\ last_call.result.value = "azure"

\* A quantity string that is a decimal numeral.
IsNumeral(q) ==
    q # << >> /\ \A n \in DOMAIN q : q[n] \in {"0", "1", "2", "3", "4", "5", "6", "7", "8", "9"}

\* A decimal numeral greater than zero: one of its digits is not "0".
IsPositiveNumeral(q) == IsNumeral(q) /\ \E n \in DOMAIN q : q[n] # "0"

GpuLabelled(node) == HasLabel(node, "nvidia.com/gpu.present")

\* The node's allocatable nvidia.com/gpu is a strictly positive quantity.
GpuPositive(node) ==
    /\ "nvidia.com/gpu" \in DOMAIN node.allocatable
    /\ IsPositiveNumeral(node.allocatable["nvidia.com/gpu"])

\* The node's allocatable nvidia.com/gpu is missing or zero.
GpuMissingOrZero(node) ==
    \/ "nvidia.com/gpu" \notin DOMAIN node.allocatable
    \/ /\ IsNumeral(node.allocatable["nvidia.com/gpu"])
       /\ ~IsPositiveNumeral(node.allocatable["nvidia.com/gpu"])

\* C4: for every node list, the GPU-availability check passes if and only
\* if at least one node carries the nvidia.com/gpu.present label and every
\* node carrying it has allocatable nvidia.com/gpu with a strictly positive
\* quantity.  It fails for a list without a labelled node (the empty list
\* included), and it fails at the first labelled node whose quantity is
\* missing or zero, without looking at the nodes after it.  A quantity is
\* read as the decimal numeral it is written as; a labelled node whose
\* quantity is no numeral makes the check raise, which is neither outcome.
C4_GpuCheck ==
    (last_call.fn = "test_gpu_availablity" /\ last_call.listing.exc = "") =>
        LET items == last_call.listing.items
            r == last_call.result
        IN  /\ Passed(r) <=>
                 /\ \E n \in DOMAIN items : GpuLabelled(items[n])
                 /\ \A n \in DOMAIN items : GpuLabelled(items[n]) => GpuPositive(items[n])
            /\ (\A n \in DOMAIN items : ~GpuLabelled(items[n]))
               => (Failed(r) /\ r.scanned = Len(items))
            /\ \A n \in DOMAIN items :
                 ( /\ GpuLabelled(items[n])
                   /\ GpuMissingOrZero(items[n])
                   /\ \A m \in 1..(n - 1) : GpuLabelled(items[m]) => GpuPositive(items[m]) )
                 => (Failed(r) /\ r.scanned = n)

C4_Witness ==
    /\ last_call.fn = "test_gpu_availablity"
    /\ last_call.listing.exc = ""
    /\ Len(last_call.listing.items) = 2
    /\ GpuLabelled(last_call.listing.items[1])
    /\ GpuMissingOrZero(last_call.listing.items[1])
    /\ "nvidia.com/gpu" \in DOMAIN last_call.listing.items[1].allocatable
    /\ GpuLabelled(last_call.listing.items[2])
    /\ GpuPositive(last_call.listing.items[2])
    /\ Failed(last_call.result)
    /\ last_call.result.scanned = 1

\* The five allow-listed SKUs.
AllowListedSkus ==
    { "Standard_NC24ads_A100_v4", "Standard_ND96asr_v4", "Standard_ND96amsr_A100_v4",
      "Standard_ND96isr_H100_v5", "Standard_ND96isr_H200_v5" }

AllowListedNode(node) ==
    /\ HasLabel(node, "beta.kubernetes.io/instance-type")
    /\ node.labels["beta.kubernetes.io/instance-type"] \in AllowListedSkus

\* C5: the instance-type check passes if and only if the resolved provider
\* is "azure" and at least one listed node's beta.kubernetes.io/instance-type
\* label is one of the five allow-listed SKUs; otherwise, when the listing is
\* answered, it fails: nodes with unknown or absent instance types change
\* nothing, a listing of zero nodes fails, and a provider other than "azure"
\* fails whatever the nodes are.
C5_InstanceTypeCheck ==
    (last_call.fn = "test_instance_type") =>
        LET listing == last_call.listing
            r == last_call.result
            supported == /\ listing.exc = ""
                         /\ \E n \in DOMAIN listing.items : AllowListedNode(listing.items[n])
        IN  /\ Cardinality(AllowListedSkus) = 5
            /\ Passed(r) <=> (cloud_provider = "azure" /\ supported)
            /\ cloud_provider # "azure" => Failed(r)
            /\ (listing.exc = "" /\ ~supported) => Failed(r)

C5_Witness ==
    /\ last_call.fn = "test_instance_type"
    /\ cloud_provider = "azure"
    /\ last_call.listing.exc = ""
    /\ Len(last_call.listing.items) = 2
    /\ HasLabel(last_call.listing.items[1], "beta.kubernetes.io/instance-type")
    /\ ~AllowListedNode(last_call.listing.items[1])
    /\ HasLabel(last_call.listing.items[2], "beta.kubernetes.io/instance-type")
    /\ last_call.listing.items[2].labels["beta.kubernetes.io/instance-type"]
          = "Standard_ND96isr_H200_v5"
    /\ Passed(last_call.result)

IsResultLine(line) == line.kind \in {"PASSED", "FAILED"}
ResultLines == SelectSeq(stdout, IsResultLine)
RegisteredNames == << "instance_type", "gpu_availablity" >>

\* C6: the report prints exactly one result line per registered check, in
\* the order [instance_type, gpu_availablity] whatever the outcomes; each
\* printed outcome is the boolean the runner obtained for that check; and a
\* suggested-action line follows a check's line if and only if it failed.
C6_ReportOrder ==
    /\ Len(ResultLines) <= Len(RegisteredNames)
    /\ \A k \in DOMAIN ResultLines :
         /\ ResultLines[k].name = RegisteredNames[k]
         /\ k <= Len(executed)
         /\ executed[k].name = RegisteredNames[k]
         /\ executed[k].exc = ""
         /\ (ResultLines[k].kind = "PASSED") <=> (executed[k].value = TRUE)
    /\ ReportFinished => Len(ResultLines) = Len(RegisteredNames)
    /\ \A p \in DOMAIN stdout :
         /\ (stdout[p].kind = "FAILED")
            <=> ( /\ p < Len(stdout)
                  /\ stdout[p + 1].kind = "Suggested action"
                  /\ stdout[p + 1].name = stdout[p].name )
         /\ (stdout[p].kind = "Suggested action")
            => (p > 1 /\ stdout[p - 1].kind = "FAILED")
         /\ stdout[p].kind \in {"PASSED", "FAILED", "Suggested action"}

C6_Witness ==
    /\ ReportFinished
    /\ Len(stdout) = 3
    /\ stdout[1] = [kind |-> "PASSED", name |-> "instance_type"]
    /\ stdout[2].kind = "FAILED"
    /\ stdout[2].name = "gpu_availablity"
    /\ stdout[3].kind = "Suggested action"

\* C7: the exit code of a run started from the command line is one of 0, 1,
\* 2; it is 1 only when the cluster could not be reached (the connection
\* failed, or a listing raised ApiException), 2 only when auto-detection
\* yielded "none", and 0 whenever the run reaches the end of the report.
C7_ExitCodeMeanings ==
    (pc = "exited" /\ arg_cloud_provider \in CliCloudProviders) =>
        /\ exit_code \in {0, 1, 2}
        /\ exit_code = 1 => (k8s_api = "None" \/ uncaught = "ApiException")
        /\ exit_code = 2 => (arg_cloud_provider = "auto" /\ cloud_provider = "none")
        /\ Len(ResultLines) = Len(RegisteredNames) => exit_code = 0

\* C8: a path given with -k/--kube-config is the kube-config the connection
\* is opened with; the ambient discovery is used only when no path is given.
C8_ExplicitKubeConfigUsed ==
    k8s_api = "api" =>
        config_used = (IF kube_config = NoPath THEN AmbientConfig ELSE kube_config)

\* A predicate is executing or has executed.
ChecksStarted == executed # << >> \/ pc \in {"run", "report", "returned"}

\* C9: whenever a check predicate is executing or has executed, the stored
\* cloud provider is a concrete value, never "auto"; for a run started with
\* a provider the command line admits (auto or azure) it is "azure".
C9_ProviderResolved ==
    ChecksStarted =>
        /\ cloud_provider \in {"azure", "aws", "none"}
        /\ arg_cloud_provider \in {"auto", "azure"} => cloud_provider = "azure"

C9_Witness ==
    /\ arg_cloud_provider = "auto"
    /\ Len(executed) = 2
    /\ cloud_provider = "azure"

\* C10: the runner calls the registered checks in registration order, each
\* at most once and, once it has returned, each exactly once; a check that
\* returns false does not stop the checks after it; a call writes the result
\* of its own check and nothing else; and nothing is printed before every
\* check has returned its result.
C10_RunnerOrder ==
    /\ Len(executed) <= Len(RegisteredNames)
    /\ \A k \in DOMAIN executed : executed[k].name = RegisteredNames[k]
    /\ (pc \in {"report", "returned"} \/ ReportFinished \/ stdout # << >>)
       => /\ Len(executed) = Len(RegisteredNames)
          /\ \A k \in DOMAIN executed : executed[k].exc = ""
    /\ (Len(executed) = 1 /\ Failed(executed[1])) => (pc = "run" /\ i = 2)
    /\ \A k \in DOMAIN tests :
         /\ tests[k].name = RegisteredNames[k]
         /\ tests[k] = [RegisteredTests[k] EXCEPT !.result = tests[k].result]
         /\ tests[k].result =
               (IF k <= Len(executed) /\ executed[k].exc = ""
                   THEN executed[k].value
                   ELSE FALSE)

C10_Witness ==
    /\ pc = "report"
    /\ stdout = << >>
    /\ Len(executed) = 2
    /\ Failed(executed[1])
    /\ Passed(executed[2])
    /\ ~tests[1].result
    /\ tests[2].result

====
